---- MODULE Spec2Model ----
(***************************************************************************)
(* Model of pagion: the UID directory (profiles table, lookup and          *)
(* regenerate routines), the contact graph (contacts table and the         *)
(* ContactsList component) and the message thread (messages table and the  *)
(* ChatArea component).  Strings that are measured, trimmed or truncated   *)
(* are sequences of one-character strings.                                 *)
(***************************************************************************)
EXTENDS Integers, Sequences, FiniteSets, TLC

\* ------------------------------------------------------------------ values

\* SQL NULL for uuid values (auth.uid() of a caller that carries no identity).
NULL == "NULL"

\* SQL NULL for text values (a text argument that is NULL).
NULL_TEXT == << "NULL" >>

\* auth.users: the accounts of the authentication provider.
Users == {"u1", "u2", "u3"}

\* profiles.name as given at registration.
NameOf(u) == << "n", u >>

Min(a, b) == IF a < b THEN a ELSE b

Repeat(c, n) == [i \in 1..n |-> c]

\* ------------------------------------------------------- handle generation

\* Number of characters kept of the md5 digest, and the length lookup accepts.
UID_LENGTH == 8

\* md5(...) yields 32 hexadecimal characters; a sample of digests.
Md5Digests == { Repeat("a", 32), Repeat("b", 32) }

\* substring(md5(...), 1, 8): SQL substring is 1-based, 8 characters long.
Md5Uid(d) == SubSeq(d, 1, UID_LENGTH)

\* Math.random().toString(36): "0." and the base-36 digits of the fraction,
\* as many as the number has (0.5 is "0.i"), or "0" alone for zero.
Base36Outputs == { << "0", "." >> \o Repeat("k", 11), << "0", ".", "i" >> }

\* s.substring(2, 10): the characters at 0-based positions 2..9 that exist.
Substring_2_10(s) == SubSeq(s, 3, Min(10, Len(s)))

\* Every handle a row can come to hold.
Handles == { Md5Uid(d) : d \in Md5Digests } \cup { Substring_2_10(s) : s \in Base36Outputs }

\* ------------------------------------------------------------------- state

VARIABLES
  profiles,   \* public.profiles: user_id -> [uid, name], one row per user_id
  rpc,        \* per session: its directory request, running or just answered
  contacts,   \* public.contacts: set of rows [id, user_id, contact_user_id]
  cl,         \* per session: the state of its ContactsList component
  messages,   \* public.messages: set of rows
  msgIds,     \* number of message ids that gen_random_uuid() has given out
  clock,      \* the time in ms, of Date.now() and of the database's now()
  chat        \* per session: the state of its ChatArea component

dirVars == << profiles, rpc >>

contactVars == << contacts, cl >>

chatVars == << messages, msgIds, clock, chat >>

\* What the directory requests leave alone.
notDirVars == << contactVars, chatVars >>

\* What the ContactsList component and the contacts table leave alone.
notContactVars == << dirVars, chatVars >>

\* What the ChatArea component and the messages table leave alone.
notChatVars == << dirVars, contactVars >>

vars == << profiles, rpc, contacts, cl, messages, msgIds, clock, chat >>

\* Browser sessions, and auth.uid() in each: s0 is not signed in.
RpcSessions == {"s1", "s2", "s0"}

AuthUid(s) == CASE s = "s1" -> "u1" [] s = "s2" -> "u2" [] OTHER -> NULL

\* ------------------------------------------------------- SQL three-valued logic

\* a != b in SQL: NULL when either side is NULL.
SqlNe(a, b) == IF a = NULL \/ b = NULL THEN "null" ELSE IF a # b THEN "true" ELSE "false"

\* a = b in SQL: NULL when either side is NULL.
SqlEq(a, b) == IF a = NULL \/ b = NULL THEN "null" ELSE IF a = b THEN "true" ELSE "false"

\* IF c THEN ... and USING (c): taken only when c is true, not when it is NULL.
SqlTrue(c) == c = "true"

\* ----------------------------------------------------------- profiles table

\* Policy "Users can update own profile": USING (auth.uid() = user_id).
RlsProfileUpdate(caller, u) == SqlTrue(SqlEq(caller, u))

\* uid TEXT NOT NULL UNIQUE: the new value of row u is held by another row.
UidConflict(prof, u, newUid) == \E v \in DOMAIN prof : v # u /\ prof[v].uid = newUid

\* UPDATE public.profiles SET uid = newUid WHERE user_id = target, as caller:
\* the rows the policy lets the caller update, the unique index, the new table.
UpdateUid(prof, caller, target, newUid) ==
  LET rows == { u \in DOMAIN prof : u = target /\ RlsProfileUpdate(caller, u) }
      clash == \E u \in rows : UidConflict(prof, u, newUid)
  IN  [ unique_violation |-> clash,
        rows |-> IF clash THEN {} ELSE rows,
        profiles |-> IF clash THEN prof
                     ELSE [u \in DOMAIN prof |->
                             IF u \in rows THEN [prof[u] EXCEPT !.uid = newUid] ELSE prof[u]] ]

\* INSERT INTO profiles (user_id, name): uid takes its DEFAULT,
\* substring(md5(random()::text), 1, 8); user_id and uid are UNIQUE.
CreateProfile(u, d) ==
  /\ u \notin DOMAIN profiles
  /\ ~ \E v \in DOMAIN profiles : profiles[v].uid = Md5Uid(d)
  /\ profiles' = [v \in DOMAIN profiles \cup {u} |->
                    IF v = u THEN [uid |-> Md5Uid(d), name |-> NameOf(u)] ELSE profiles[v]]
  /\ UNCHANGED << rpc, notDirVars >>

\* ------------------------------------------------- lookup_profile_by_uid

\* The lookup without the length test.
lookup_without_length_test(prof, p_uid) ==
  IF p_uid = NULL_TEXT
  THEN [queried |-> FALSE, rows |-> << >>]
  ELSE LET hits == { u \in DOMAIN prof : prof[u].uid = p_uid }
       IN  [queried |-> TRUE,
            rows |-> IF hits = {} THEN << >>
                     ELSE LET u == CHOOSE v \in hits : TRUE
                          IN  << [user_id |-> u, name |-> prof[u].name] >>]

\* RETURNS TABLE(user_id, name): RETURN with no row when p_uid IS NULL or its
\* length is not 8, before the SELECT; otherwise the SELECT ... LIMIT 1.
\* SECURITY DEFINER: the SELECT sees every row.  queried tells whether the
\* SELECT on profiles ran.
lookup_profile_by_uid(prof, p_uid) ==
  IF p_uid = NULL_TEXT \/ Len(p_uid) # UID_LENGTH
  THEN [queried |-> FALSE, rows |-> << >>]
  ELSE LET hits == { u \in DOMAIN prof : prof[u].uid = p_uid }
       IN  [queried |-> TRUE,
            rows |-> IF hits = {} THEN << >>
                     ELSE LET u == CHOOSE v \in hits : TRUE
                          IN  << [user_id |-> u, name |-> prof[u].name] >>]

\* ------------------------------------------------- regenerate_profile_uid

max_attempts == 10

RpcIdle == [pc |-> "idle", p |-> NULL, attempt |-> 0, new_uid |-> << >>, err |-> ""]

\* BEGIN: the authorization check, then the loop is entered with attempt = 0.
RegenerateCall(s, p_user_id) ==
  /\ rpc[s].pc = "idle"
  /\ rpc' = [rpc EXCEPT ![s] =
       IF SqlTrue(SqlNe(AuthUid(s), p_user_id))
       THEN [RpcIdle EXCEPT !.pc = "raised", !.p = p_user_id, !.err = "Not authorized"]
       ELSE [RpcIdle EXCEPT !.pc = "loop", !.p = p_user_id]]
  /\ UNCHANGED << profiles, notDirVars >>

\* The exception handler with the bound compared by > instead of >=.
OnUniqueViolationOffByOne(r) ==
  IF r.attempt + 1 > max_attempts
  THEN [r EXCEPT !.attempt = r.attempt + 1, !.pc = "raised", !.err = "Failed to generate"]
  ELSE [r EXCEPT !.attempt = r.attempt + 1]

\* The exception handler: count the attempt, give up at max_attempts.
OnUniqueViolation(r) ==
  IF r.attempt + 1 >= max_attempts
  THEN [r EXCEPT !.attempt = r.attempt + 1, !.pc = "raised", !.err = "Failed to generate"]
  ELSE [r EXCEPT !.attempt = r.attempt + 1]

\* One pass of the LOOP: a fresh candidate, the UPDATE, EXIT and RETURN new_uid
\* or the exception handler.
RegenerateAttempt(s, d) ==
  /\ rpc[s].pc = "loop"
  /\ LET new_uid == Md5Uid(d)
         upd == UpdateUid(profiles, AuthUid(s), rpc[s].p, new_uid)
     IN  IF upd.unique_violation
         THEN /\ rpc' = [rpc EXCEPT ![s] = OnUniqueViolation(rpc[s])]
              /\ UNCHANGED profiles
         ELSE /\ rpc' = [rpc EXCEPT ![s] = [rpc[s] EXCEPT !.pc = "returned", !.new_uid = new_uid]]
              /\ profiles' = upd.profiles
  /\ UNCHANGED notDirVars

\* ------------------------------------------------------ Settings.tsx regenerate

\* handleRegenerateUid: if (!profile) return; newUid from Math.random();
\* update({uid: newUid}).eq('user_id', profile.user_id); a toast on either outcome.
HandleRegenerateUid(s, out) ==
  /\ rpc[s].pc = "idle"
  /\ AuthUid(s) \in DOMAIN profiles
  /\ LET newUid == Substring_2_10(out)
         upd == UpdateUid(profiles, AuthUid(s), AuthUid(s), newUid)
     IN  /\ profiles' = upd.profiles
         /\ rpc' = [rpc EXCEPT ![s] =
              [RpcIdle EXCEPT !.pc = "settings", !.p = AuthUid(s), !.new_uid = newUid,
                              !.err = IF upd.unique_violation
                                      THEN "Failed to regenerate UID." ELSE ""]]
  /\ UNCHANGED notDirVars

\* The same UPDATE sent by a session for the row of another user: what the
\* storage layer does with it is decided by the policy and the unique index.
ForeignUpdateUid(s, target, newUid) ==
  /\ rpc[s].pc = "idle"
  /\ target # AuthUid(s)
  /\ LET upd == UpdateUid(profiles, AuthUid(s), target, newUid)
     IN  /\ profiles' = upd.profiles
         /\ rpc' = [rpc EXCEPT ![s] =
              [RpcIdle EXCEPT !.pc = "updated", !.p = target,
                              !.err = IF upd.unique_violation THEN "unique_violation" ELSE ""]]
  /\ UNCHANGED notDirVars

\* The caller has its answer; the session may issue its next request.
RequestDone(s) ==
  /\ rpc[s].pc \in {"returned", "raised", "settings", "updated"}
  /\ rpc' = [rpc EXCEPT ![s] = RpcIdle]
  /\ UNCHANGED << profiles, notDirVars >>

\* ----------------------------------------------------------- contacts table

\* Sessions with a mounted ContactsList.
ContactSessions == {"s1", "s2"}

\* Number of contact row ids of one owner that are in use at a time.
MaxContactIds == 2

\* No id.
NoId == << >>

\* The ids of rows of user u, << u, k >>, held by a row or remembered by a client.
UsedContactIds(u) ==
  { e.id : e \in { x \in contacts : x.user_id = u } }
    \cup UNION { { c.id : c \in cl[s].contacts } \cup { c.id : c \in cl[s].snap }
                   \cup { cl[s].rm }
                 : s \in { t \in ContactSessions : AuthUid(t) = u } }

\* id UUID DEFAULT gen_random_uuid(): an id that nothing holds.
FreshContactIds(u) == { << u, k >> : k \in 1..MaxContactIds } \ UsedContactIds(u)

MinOf(S) == CHOOSE x \in S : \A y \in S : x <= y

\* INSERT INTO contacts: policy "Users can add contacts" WITH CHECK
\* (auth.uid() = user_id), then UNIQUE(user_id, contact_user_id).
InsertContact(rows, caller, row) ==
  IF ~ SqlTrue(SqlEq(caller, row.user_id))
  THEN [error |-> "row-level security", contacts |-> rows]
  ELSE IF \E e \in rows : e.user_id = row.user_id /\ e.contact_user_id = row.contact_user_id
       THEN [error |-> "unique_violation", contacts |-> rows]
       ELSE [error |-> "", contacts |-> rows \cup {row}]

\* A delete that takes the edge of the peer back to the owner with it.
DeleteContactBothWays(rows, caller, contactId) ==
  LET gone == { e \in rows : e.id = contactId /\ SqlTrue(SqlEq(caller, e.user_id)) }
  IN  rows \ (gone \cup { e \in rows : \E g \in gone :
                                e.user_id = g.contact_user_id /\ e.contact_user_id = g.user_id })

\* DELETE FROM contacts WHERE id = contactId: policy "Users can remove
\* contacts" USING (auth.uid() = user_id); no row to delete is no error.
DeleteContact(rows, caller, contactId) ==
  rows \ { e \in rows : e.id = contactId /\ SqlTrue(SqlEq(caller, e.user_id)) }

\* select('id, contact_user_id').eq('user_id', user): policy "Users can view
\* own contacts" USING (auth.uid() = user_id).
SelectContacts(rows, caller, user) ==
  { [id |-> e.id, contact_user_id |-> e.contact_user_id] :
      e \in { x \in rows : x.user_id = user /\ SqlTrue(SqlEq(caller, x.user_id)) } }

\* Policy "Users can view own and contact profiles" on profiles.
RlsProfileSelect(rows, caller, u) ==
  \/ SqlTrue(SqlEq(caller, u))
  \/ \E e \in rows : e.user_id = caller /\ e.contact_user_id = u

\* --------------------------------------------------------- ContactsList.tsx

\* String.prototype.trim: leading and trailing white space removed.
RECURSIVE TrimStart(_)
TrimStart(str) == IF str # << >> /\ Head(str) = " " THEN TrimStart(Tail(str)) ELSE str

RECURSIVE TrimEnd(_)
TrimEnd(str) ==
  IF str # << >> /\ str[Len(str)] = " " THEN TrimEnd(SubSeq(str, 1, Len(str) - 1)) ELSE str

\* A trim that leaves the white space at the end.
TrimLeading(str) == TrimStart(str)

Trim(str) == TrimEnd(TrimStart(str))

\* What a user types into the search field.
SearchUids ==
  Handles \cup { << " " >> \o Md5Uid(d) \o << " " >> : d \in Md5Digests } \cup { << " " >> }

\* useState: contacts = [], searchUid = ''; the effect on mount calls fetchContacts.
ClMounted ==
  [contacts |-> {}, fetch |-> TRUE,
   pc |-> "idle", uid |-> << >>, snap |-> {}, found |-> NULL, rm |-> NoId, toast |-> ""]

\* The profile of a contact, or the placeholder when no row was returned.
ContactProfile(profilesData, u) ==
  IF u \in profilesData THEN [name |-> profiles[u].name, uid |-> profiles[u].uid]
  ELSE [name |-> << "Unknown" >>, uid |-> Repeat("?", 8)]

\* fetchContacts: if (!user) return; the rows of the session's user, and no
\* row sets the list to []; then the profiles of the contacts that the policy
\* shows, and an error of that query (profilesError) sets the list to [];
\* else the profiles combined with the rows; setContacts(formattedContacts).
FetchContacts(s, profilesError) ==
  /\ cl[s].fetch
  /\ AuthUid(s) # NULL
  /\ LET contactsData == SelectContacts(contacts, AuthUid(s), AuthUid(s))
         contactUserIds == { c.contact_user_id : c \in contactsData }
         profilesData == { u \in DOMAIN profiles :
                             u \in contactUserIds /\ RlsProfileSelect(contacts, AuthUid(s), u) }
         formattedContacts ==
           { [id |-> c.id, contact_user_id |-> c.contact_user_id,
              profile |-> ContactProfile(profilesData, c.contact_user_id)] : c \in contactsData }
     IN  cl' = [cl EXCEPT ![s] =
                  [cl[s] EXCEPT !.fetch = FALSE,
                                !.contacts = IF contactsData # {} /\ profilesError
                                             THEN {} ELSE formattedContacts]]
  /\ UNCHANGED << contacts, notContactVars >>

\* handleAddContact up to the first await: nothing happens without a user or
\* with a blank input; a trimmed input that is not 8 long is refused; else the
\* lookup is sent.  The handler keeps the contacts of the render it was made in.
HandleAddContact(s, searchUid) ==
  /\ cl[s].pc = "idle"
  /\ AuthUid(s) # NULL
  /\ Trim(searchUid) # << >>
  /\ LET trimmedUid == Trim(searchUid)
     IN  cl' = [cl EXCEPT ![s] =
           IF Len(trimmedUid) # UID_LENGTH
           THEN [cl[s] EXCEPT !.pc = "done", !.uid = trimmedUid,
                              !.toast = "UID must be exactly 8 characters."]
           ELSE [cl[s] EXCEPT !.pc = "lookup", !.uid = trimmedUid, !.snap = cl[s].contacts]]
  /\ UNCHANGED << contacts, notContactVars >>

\* The checks on the lookup's answer without the comparison with user.id.
AddContactChecksNoSelf(user, list, foundProfiles) ==
  IF foundProfiles = << >> THEN "No user exists with that UID."
  ELSE IF \E c \in list : c.contact_user_id = foundProfiles[1].user_id
       THEN "Already added"
       ELSE "insert"

\* The checks on the lookup's answer, in the handler's order: not found, the
\* user itself, already in the list of contacts the handler holds.
AddContactChecks(user, list, foundProfiles) ==
  IF foundProfiles = << >> THEN "No user exists with that UID."
  ELSE IF foundProfiles[1].user_id = user THEN "You can't add yourself as a contact."
  ELSE IF \E c \in list : c.contact_user_id = foundProfiles[1].user_id
       THEN "Already added"
       ELSE "insert"

\* handleAddContact, the lookup answered: a toast and return, or the insert is sent.
AddContactLookup(s) ==
  /\ cl[s].pc = "lookup"
  /\ LET foundProfiles == lookup_profile_by_uid(profiles, cl[s].uid).rows
         verdict == AddContactChecks(AuthUid(s), cl[s].snap, foundProfiles)
     IN  cl' = [cl EXCEPT ![s] =
           IF verdict = "insert"
           THEN [cl[s] EXCEPT !.pc = "insert", !.found = foundProfiles[1].user_id, !.snap = {}]
           ELSE [cl[s] EXCEPT !.pc = "done", !.toast = verdict, !.snap = {}]]
  /\ UNCHANGED << contacts, notContactVars >>

\* handleAddContact, the insert answered: an error toast, or the success toast
\* and fetchContacts().
AddContactInsert(s) ==
  /\ cl[s].pc = "insert"
  /\ LET fresh == FreshContactIds(AuthUid(s))
         id == IF fresh = {} THEN NoId ELSE << AuthUid(s), MinOf({ f[2] : f \in fresh }) >>
         row == [id |-> id, user_id |-> AuthUid(s), contact_user_id |-> cl[s].found]
         ins == InsertContact(contacts, AuthUid(s), row)
     IN  /\ ins.error # "" \/ id # NoId
         /\ contacts' = ins.contacts
         /\ cl' = [cl EXCEPT ![s] =
              IF ins.error # ""
              THEN [cl[s] EXCEPT !.pc = "done", !.toast = "Failed to add contact."]
              ELSE [cl[s] EXCEPT !.pc = "done", !.toast = "Contact added", !.fetch = TRUE]]
  /\ UNCHANGED notContactVars

\* handleRemoveContact up to the await: the delete of a listed contact is sent.
HandleRemoveContact(s, contactId) ==
  /\ cl[s].pc = "idle"
  /\ \E c \in cl[s].contacts : c.id = contactId
  /\ cl' = [cl EXCEPT ![s] = [cl[s] EXCEPT !.pc = "remove", !.rm = contactId,
                                           !.snap = cl[s].contacts]]
  /\ UNCHANGED << contacts, notContactVars >>

\* handleRemoveContact, the delete answered without error: the contacts the
\* handler holds, without the removed one, become the list.
RemoveContactDelete(s) ==
  /\ cl[s].pc = "remove"
  /\ contacts' = DeleteContact(contacts, AuthUid(s), cl[s].rm)
  /\ cl' = [cl EXCEPT ![s] =
       [cl[s] EXCEPT !.pc = "done", !.toast = "Contact removed", !.rm = NoId, !.snap = {},
                     !.contacts = { c \in cl[s].snap : c.id # cl[s].rm }]]
  /\ UNCHANGED notContactVars

\* The toast is gone; the next command can be given.
ContactsListIdle(s) ==
  /\ cl[s].pc = "done"
  /\ cl' = [cl EXCEPT ![s] = [cl[s] EXCEPT !.pc = "idle", !.uid = << >>, !.found = NULL,
                                           !.toast = ""]]
  /\ UNCHANGED << contacts, notContactVars >>

\* ------------------------------------------------------------ messages

\* Open ChatArea components: s1 is signed in as u1, s2 as u2.
ChatSessions == {"s1", "s2"}

\* Message ids that gen_random_uuid() gives out; an insert is sent while one
\* is left for it.
MaxMessages == 2

\* Calls of fetchMessages of one component that run at a time.
MaxFetches == 2

\* Date.now() when the model starts, the time between two observations of
\* the clock, and the last time modelled.
ClockStart == 1000

ClockStep == 250

MaxClock == 1500

\* id UUID DEFAULT gen_random_uuid(): the k-th id given out.
MsgId(k) == << "m", k >>

MsgIds == { MsgId(k) : k \in 1..MaxMessages }

\* const MESSAGE_COOLDOWN = 500
MESSAGE_COOLDOWN == 500

\* validate_message_content: longest content accepted.
MAX_CONTENT_LENGTH == 10000

\* Trigger validate_message_content BEFORE INSERT OR UPDATE: the exception
\* raised for the row, or "".
validate_message_content(content) ==
  IF content = NULL_TEXT \/ Len(Trim(content)) = 0 THEN "Message content cannot be empty"
  ELSE IF Len(content) > MAX_CONTENT_LENGTH
       THEN "Message content exceeds maximum length of 10000 characters"
       ELSE ""

\* INSERT INTO messages: policy "Users can send messages" WITH CHECK
\* (auth.uid() = sender_id), the content trigger, and reply_to_id REFERENCES
\* messages(id).
InsertMessage(rows, caller, row) ==
  IF ~ SqlTrue(SqlEq(caller, row.sender_id))
  THEN [error |-> "row-level security", messages |-> rows]
  ELSE IF validate_message_content(row.content) # ""
       THEN [error |-> validate_message_content(row.content), messages |-> rows]
       ELSE IF row.reply_to_id # NoId /\ ~ \E m \in rows : m.id = row.reply_to_id
            THEN [error |-> "foreign_key_violation", messages |-> rows]
            ELSE [error |-> "", messages |-> rows \cup {row}]

\* The delete that takes the replies with it.
DeleteMessageCascade(rows, caller, messageId, now) ==
  LET gone == { m \in rows : m.id = messageId /\ SqlTrue(SqlEq(caller, m.sender_id)) }
      ids == { m.id : m \in gone }
  IN  { m \in rows \ gone : m.reply_to_id \notin ids }

\* DELETE FROM messages WHERE id = messageId: policy "Users can delete own
\* messages" USING (auth.uid() = sender_id); reply_to_id ... ON DELETE SET
\* NULL in every row that names a deleted row, an update on which the
\* trigger update_messages_updated_at sets updated_at = now().
DeleteMessage(rows, caller, messageId, now) ==
  LET gone == { m \in rows : m.id = messageId /\ SqlTrue(SqlEq(caller, m.sender_id)) }
      ids == { m.id : m \in gone }
  IN  { IF m.reply_to_id \in ids THEN [m EXCEPT !.reply_to_id = NoId, !.updated_at = now]
        ELSE m : m \in rows \ gone }

\* The update that leaves is_edited as it is.
UpdateMessageKeepsFlag(rows, caller, messageId, content, now) ==
  LET hit == { m \in rows : m.id = messageId /\ SqlTrue(SqlEq(caller, m.sender_id)) }
  IN  [error |-> "",
       messages |-> { IF m \in hit THEN [m EXCEPT !.content = content, !.updated_at = now]
                      ELSE m : m \in rows }]

\* UPDATE messages SET content, is_edited = true WHERE id = messageId: policy
\* "Users can edit own messages" USING (auth.uid() = sender_id); on each row
\* it reaches the content trigger and update_messages_updated_at, which sets
\* updated_at = now().  No row reached is no error.
UpdateMessage(rows, caller, messageId, content, now) ==
  LET hit == { m \in rows : m.id = messageId /\ SqlTrue(SqlEq(caller, m.sender_id)) }
  IN  IF hit # {} /\ validate_message_content(content) # ""
      THEN [error |-> validate_message_content(content), messages |-> rows]
      ELSE [error |-> "",
            messages |-> { IF m \in hit
                           THEN [m EXCEPT !.content = content, !.is_edited = TRUE,
                                          !.updated_at = now]
                           ELSE m : m \in rows }]

\* Policy "Users can view their messages" USING (auth.uid() = sender_id OR
\* auth.uid() = receiver_id).
RlsMessageSelect(caller, m) ==
  SqlTrue(SqlEq(caller, m.sender_id)) \/ SqlTrue(SqlEq(caller, m.receiver_id))

\* .or(and(sender_id.eq.user, receiver_id.eq.peer), and(sender_id.eq.peer,
\* receiver_id.eq.user)): the rows of the conversation that the policy shows.
SelectThread(rows, caller, user, peer) ==
  { m \in rows :
      /\ RlsMessageSelect(caller, m)
      /\ \/ m.sender_id = user /\ m.receiver_id = peer
         \/ m.sender_id = peer /\ m.receiver_id = user }

\* .order('created_at', { ascending: true }): every arrangement of the rows
\* in which created_at does not decrease; rows of equal created_at come in an
\* order the query does not fix.
OrderByCreatedAt(S) ==
  { q \in [1..Cardinality(S) -> S] :
      /\ \A i \in DOMAIN q, j \in DOMAIN q : i # j => q[i] # q[j]
      /\ \A i \in DOMAIN q, j \in DOMAIN q : i < j => q[i].created_at <= q[j].created_at }

\* The sequence without its i-th element.
Without(q, i) == SubSeq(q, 1, i - 1) \o SubSeq(q, i + 1, Len(q))

\* A value that may be null or undefined: no element, or the one element.
None == << >>

Some(x) == << x >>

\* select('content, sender_id').eq('id', id).maybeSingle(): the row or null.
SelectReply(rows, caller, id) ==
  LET hits == { m \in rows : m.id = id /\ RlsMessageSelect(caller, m) }
  IN  IF hits = {} THEN None
      ELSE LET m == CHOOSE x \in hits : TRUE
           IN  Some([content |-> m.content, sender_id |-> m.sender_id])

\* --------------------------------------------------------------- ChatArea.tsx

\* The contact prop of the conversation of user with peer: an entry of the
\* contact list.
ContactOf(user, peer) ==
  [id |-> << user, 1 >>, contact_user_id |-> peer,
   profile |-> [name |-> NameOf(peer), uid |-> Md5Uid(Repeat("a", 32))]]

\* useState: messages = [], lastMessageTime = 0; the effect on mount calls
\* fetchMessages and every change notification calls it again (due);
\* fetches holds, for each call whose select is answered and whose
\* setMessages is to come, the contact of the render that made the call and
\* the rows it got.
\* inflight holds the insert requests that are not yet answered, each with
\* the now and the receiver of its handler.
ChatMounted(contact) ==
  [contact |-> contact, messages |-> << >>, due |-> contact # None, fetches |-> << >>,
   newMessage |-> << >>, replyTo |-> NoId,
   lastMessageTime |-> 0, inflight |-> << >>, toast |-> ""]

\* A component that has no postgres_changes callback.
NotifiedNobody(ch) == ch

\* The postgres_changes callback of every subscribed component: fetchMessages().
Notified(ch) ==
  [t \in DOMAIN ch |-> IF AuthUid(t) # NULL /\ ch[t].contact # None
                       THEN [ch[t] EXCEPT !.due = TRUE] ELSE ch[t]]

\* The message as the thread holds it: with reply_to when reply_to_id is set
\* and the row it names is returned, the row alone otherwise, also when the
\* lookup is answered with an error.  contact is the contact of the render
\* that made the call.  Of the row, the columns that the component reads.
WithReply(s, contact, msg, lookupError) ==
  LET replyData == IF msg.reply_to_id = NoId \/ lookupError THEN None
                   ELSE SelectReply(messages, AuthUid(s), msg.reply_to_id)
      own == IF AuthUid(s) \in DOMAIN profiles THEN profiles[AuthUid(s)].name ELSE << >>
      senderName == IF replyData # None /\ replyData[1].sender_id = AuthUid(s)
                    THEN (IF own # << >> THEN own ELSE << "Y", "o", "u" >>)
                    ELSE contact.profile.name
  IN  [id |-> msg.id, sender_id |-> msg.sender_id, receiver_id |-> msg.receiver_id,
       content |-> msg.content, reply_to_id |-> msg.reply_to_id,
       is_edited |-> msg.is_edited, created_at |-> msg.created_at,
       reply_to |-> IF replyData = None THEN None
                    ELSE Some([content |-> replyData[1].content, sender_name |-> senderName])]

\* A fetchMessages that empties the thread when its select is answered with
\* an error.
FetchMessagesClearsOnError(s, error) ==
  /\ chat[s].due
  /\ AuthUid(s) # NULL
  /\ chat[s].contact # None
  /\ Len(chat[s].fetches) < MaxFetches
  /\ IF error
     THEN chat' = [chat EXCEPT ![s] = [chat[s] EXCEPT !.due = FALSE, !.messages = << >>]]
     ELSE \E data \in OrderByCreatedAt(SelectThread(messages, AuthUid(s), AuthUid(s),
                                                    chat[s].contact[1].contact_user_id)) :
            chat' = [chat EXCEPT ![s] =
                       [chat[s] EXCEPT !.due = FALSE,
                                       !.fetches = Append(@, [contact |-> chat[s].contact[1],
                                                              data |-> data])]]
  /\ UNCHANGED << messages, msgIds, clock, notChatVars >>

\* fetchMessages up to the answer of its select: nothing without user or
\* contact; the rows of the conversation in the order of created_at, or an
\* error, after which the call sets nothing.  The call runs on mount, on a
\* change of the contact and on every change notification, also while an
\* earlier call is not finished.
FetchMessages(s, error) ==
  /\ chat[s].due
  /\ AuthUid(s) # NULL
  /\ chat[s].contact # None
  /\ Len(chat[s].fetches) < MaxFetches
  /\ IF error
     THEN chat' = [chat EXCEPT ![s].due = FALSE]
     ELSE \E data \in OrderByCreatedAt(SelectThread(messages, AuthUid(s), AuthUid(s),
                                                    chat[s].contact[1].contact_user_id)) :
            chat' = [chat EXCEPT ![s] =
                       [chat[s] EXCEPT !.due = FALSE,
                                       !.fetches = Append(@, [contact |-> chat[s].contact[1],
                                                              data |-> data])]]
  /\ UNCHANGED << messages, msgIds, clock, notChatVars >>

\* fetchMessages from the answer of its select on, for any of the calls that
\* are running: the lookups of the replied-to rows, of which those of the
\* messages in failed are answered with an error, and, when all are
\* answered, setMessages(messagesWithReplies).
FetchMessagesResolve(s, k, failed) ==
  /\ k \in DOMAIN chat[s].fetches
  /\ LET data == chat[s].fetches[k].data
         messagesWithReplies ==
           [i \in DOMAIN data |->
              WithReply(s, chat[s].fetches[k].contact, data[i], data[i].id \in failed)]
     IN  /\ failed \subseteq { data[i].id : i \in { j \in DOMAIN data : data[j].reply_to_id # NoId } }
         /\ chat' = [chat EXCEPT ![s] = [chat[s] EXCEPT !.fetches = Without(@, k),
                                                          !.messages = messagesWithReplies]]
  /\ UNCHANGED << messages, msgIds, clock, notChatVars >>

\* What a user types into the message field.
NewMessages == { << " ", "h", "i", " " >>, << " " >> }

\* The ids of the messages the thread shows.
ThreadIds(s) == { chat[s].messages[i].id : i \in DOMAIN chat[s].messages }

\* The insert requests that the database has not yet answered.
InFlight == Len(chat["s1"].inflight) + Len(chat["s2"].inflight)

\* handleSendMessage up to the insert: nothing without user, contact or
\* content other than white space; now = Date.now(); nothing when
\* now - lastMessageTime < MESSAGE_COOLDOWN; otherwise the insert is sent,
\* with the id of replyTo, a message of the thread chosen with Reply, or null.
HandleSendMessage(s, newMessage, replyTo) ==
  /\ AuthUid(s) # NULL
  /\ chat[s].contact # None
  /\ Trim(newMessage) # << >>
  /\ replyTo \in ThreadIds(s) \cup {NoId}
  /\ LET now == clock
         typed == [chat[s] EXCEPT !.newMessage = newMessage, !.replyTo = replyTo]
     IN  IF now - chat[s].lastMessageTime < MESSAGE_COOLDOWN
         THEN chat' = [chat EXCEPT ![s] = typed]
         ELSE /\ msgIds + InFlight < MaxMessages
              /\ chat' = [chat EXCEPT ![s] =
                            [typed EXCEPT !.inflight =
                               Append(@, [now |-> now, content |-> Trim(newMessage),
                                          receiver_id |-> chat[s].contact[1].contact_user_id,
                                          reply_to_id |-> replyTo])]]
  /\ UNCHANGED << messages, msgIds, clock, notChatVars >>

\* handleSendMessage from the insert on: the row is stored with the
\* database's now() and a new id; on an error the toast; otherwise
\* setLastMessageTime(now), setNewMessage(''), setReplyTo(null).
SendMessageInsertStartsClock(s, i) ==
  /\ i \in DOMAIN chat[s].inflight
  /\ msgIds < MaxMessages
  /\ LET req == chat[s].inflight[i]
         row == [id |-> MsgId(msgIds + 1), sender_id |-> AuthUid(s),
                 receiver_id |-> req.receiver_id,
                 content |-> req.content, reply_to_id |-> req.reply_to_id,
                 is_edited |-> FALSE, created_at |-> clock, updated_at |-> clock]
         res == InsertMessage(messages, AuthUid(s), row)
     IN  IF res.error # ""
         THEN /\ chat' = [chat EXCEPT ![s] = [chat[s] EXCEPT !.inflight = Without(@, i),
                                                            !.lastMessageTime = req.now,
                                                            !.toast = "Failed to send message."]]
              /\ UNCHANGED << messages, msgIds >>
         ELSE /\ messages' = res.messages
              /\ msgIds' = msgIds + 1
              /\ chat' = Notified([chat EXCEPT ![s] =
                                     [chat[s] EXCEPT !.inflight = Without(@, i),
                                                     !.lastMessageTime = req.now,
                                                     !.newMessage = << >>,
                                                     !.replyTo = NoId]])
  /\ UNCHANGED << clock, notChatVars >>

SendMessageInsert(s, i) ==
  /\ i \in DOMAIN chat[s].inflight
  /\ msgIds < MaxMessages
  /\ LET req == chat[s].inflight[i]
         row == [id |-> MsgId(msgIds + 1), sender_id |-> AuthUid(s),
                 receiver_id |-> req.receiver_id,
                 content |-> req.content, reply_to_id |-> req.reply_to_id,
                 is_edited |-> FALSE, created_at |-> clock, updated_at |-> clock]
         res == InsertMessage(messages, AuthUid(s), row)
     IN  IF res.error # ""
         THEN /\ chat' = [chat EXCEPT ![s] = [chat[s] EXCEPT !.inflight = Without(@, i),
                                                            !.toast = "Failed to send message."]]
              /\ UNCHANGED << messages, msgIds >>
         ELSE /\ messages' = res.messages
              /\ msgIds' = msgIds + 1
              /\ chat' = Notified([chat EXCEPT ![s] =
                                     [chat[s] EXCEPT !.inflight = Without(@, i),
                                                     !.lastMessageTime = req.now,
                                                     !.newMessage = << >>,
                                                     !.replyTo = NoId]])
  /\ UNCHANGED << clock, notChatVars >>

\* handleDeleteMessage(message.id), offered on the messages that the user
\* sent: the delete and, when a row went, the change notifications.
HandleDeleteMessage(s, messageId) ==
  /\ \E i \in DOMAIN chat[s].messages :
       chat[s].messages[i].id = messageId /\ chat[s].messages[i].sender_id = AuthUid(s)
  /\ messages' = DeleteMessage(messages, AuthUid(s), messageId, clock)
  /\ chat' = IF messages' # messages THEN Notified(chat) ELSE chat
  /\ UNCHANGED << msgIds, clock, notChatVars >>

\* What a user types into the field of the message being edited.
EditContents == { << " ", "y", "o", " " >>, << " " >> }

\* Edit on a message that the user sent (setEditingMessage, setEditContent)
\* and handleEditMessage: nothing when the content is white space; the update
\* with the trimmed content; on an error the toast, otherwise
\* setEditingMessage(null), setEditContent('').
HandleEditMessage(s, messageId, editContent) ==
  /\ \E i \in DOMAIN chat[s].messages :
       chat[s].messages[i].id = messageId /\ chat[s].messages[i].sender_id = AuthUid(s)
  /\ Trim(editContent) # << >>
  /\ LET res == UpdateMessage(messages, AuthUid(s), messageId, Trim(editContent), clock)
     IN  /\ messages' = res.messages
         /\ chat' = IF res.error # ""
                    THEN [chat EXCEPT ![s].toast = "Failed to edit message."]
                    ELSE IF messages' # messages THEN Notified(chat) ELSE chat
  /\ UNCHANGED << msgIds, clock, notChatVars >>

\* Time passes.
Tick ==
  /\ clock + ClockStep <= MaxClock
  /\ clock' = clock + ClockStep
  /\ UNCHANGED << messages, msgIds, chat, notChatVars >>

\* ------------------------------------------------------------ specification

\* No message yet, and no conversation open.
NoChat ==
  /\ messages = {}
  /\ msgIds = 0
  /\ clock = ClockStart
  /\ chat = [s \in ChatSessions |-> ChatMounted(None)]

DirInit ==
  /\ profiles = << >>
  /\ rpc = [s \in RpcSessions |-> RpcIdle]
  /\ contacts = {}
  /\ cl = [s \in ContactSessions |-> ClMounted]
  /\ NoChat

\* Profile tables of three registered users, some of whom have regenerated
\* their handle from the Settings screen.
ContactsInitProfiles ==
  { [u \in Users |-> [uid |-> h[u], name |-> NameOf(u)]] :
      h \in { g \in [Users -> Handles] :
                /\ \A u \in Users, v \in Users : u # v => g[u] # g[v]
                /\ g["u3"] = Md5Uid(Repeat("b", 32)) } }

ContactsInit ==
  /\ profiles \in ContactsInitProfiles
  /\ rpc = [s \in RpcSessions |-> RpcIdle]
  /\ contacts = {}
  /\ cl = [s \in ContactSessions |-> ClMounted]
  /\ NoChat

ContactsNext ==
  \/ \E s \in ContactSessions, profilesError \in BOOLEAN : FetchContacts(s, profilesError)
  \/ \E s \in ContactSessions, searchUid \in SearchUids : HandleAddContact(s, searchUid)
  \/ \E s \in ContactSessions : AddContactLookup(s)
  \/ \E s \in ContactSessions : AddContactInsert(s)
  \/ \E s \in ContactSessions, k \in 1..MaxContactIds : HandleRemoveContact(s, << AuthUid(s), k >>)
  \/ \E s \in ContactSessions : RemoveContactDelete(s)
  \/ \E s \in ContactSessions : ContactsListIdle(s)

ContactsSpec == ContactsInit /\ [][ContactsNext]_vars

\* u1 and u2 are registered, hold each other as contact and have opened
\* their conversation.
ChatInit ==
  /\ profiles = [u \in {"u1", "u2"} |->
                   [uid |-> Md5Uid(Repeat(IF u = "u1" THEN "b" ELSE "a", 32)), name |-> NameOf(u)]]
  /\ rpc = [s \in RpcSessions |-> RpcIdle]
  /\ contacts = { [id |-> << "u1", 1 >>, user_id |-> "u1", contact_user_id |-> "u2"],
                  [id |-> << "u2", 1 >>, user_id |-> "u2", contact_user_id |-> "u1"] }
  /\ cl = [s \in ContactSessions |-> ClMounted]
  /\ messages = {}
  /\ msgIds = 0
  /\ clock = ClockStart
  /\ chat = [s \in ChatSessions |->
               ChatMounted(Some(ContactOf(AuthUid(s), IF s = "s1" THEN "u2" ELSE "u1")))]

\* A conversation that holds a message and a later reply to it, opened by
\* both users after the messages were stored.
StoredMessages ==
  { [id |-> MsgId(1), sender_id |-> "u1", receiver_id |-> "u2",
     content |-> << "h", "i" >>, reply_to_id |-> NoId, is_edited |-> FALSE,
     created_at |-> ClockStart - ClockStep, updated_at |-> ClockStart - ClockStep],
    [id |-> MsgId(2), sender_id |-> "u2", receiver_id |-> "u1",
     content |-> << "h", "i" >>, reply_to_id |-> MsgId(1), is_edited |-> FALSE,
     created_at |-> ClockStart, updated_at |-> ClockStart] }

EditInit ==
  /\ profiles = [u \in {"u1", "u2"} |->
                   [uid |-> Md5Uid(Repeat(IF u = "u1" THEN "b" ELSE "a", 32)), name |-> NameOf(u)]]
  /\ rpc = [s \in RpcSessions |-> RpcIdle]
  /\ contacts = { [id |-> << "u1", 1 >>, user_id |-> "u1", contact_user_id |-> "u2"],
                  [id |-> << "u2", 1 >>, user_id |-> "u2", contact_user_id |-> "u1"] }
  /\ cl = [s \in ContactSessions |-> ClMounted]
  /\ messages = StoredMessages
  /\ msgIds = 2
  /\ clock = ClockStart
  /\ chat = [s \in ChatSessions |->
               ChatMounted(Some(ContactOf(AuthUid(s), IF s = "s1" THEN "u2" ELSE "u1")))]

\* No call of fetchMessages is between its select and setMessages. The
\* specifications that guard the select with it take the schedules in which
\* a call sets the thread before the next begins and every request of the
\* call is answered without error; RaceSpec and SwitchSpec take the others.
FetchIdle(s) == chat[s].fetches = << >>

EditNext ==
  \/ \E s \in ChatSessions : FetchIdle(s) /\ FetchMessages(s, FALSE)
  \/ \E s \in ChatSessions, k \in 1..MaxFetches : FetchMessagesResolve(s, k, {})
  \/ \E s \in ChatSessions, messageId \in MsgIds : HandleDeleteMessage(s, messageId)
  \/ \E s \in ChatSessions, messageId \in MsgIds, editContent \in EditContents :
       HandleEditMessage(s, messageId, editContent)
  \/ Tick

EditSpec == EditInit /\ [][EditNext]_vars

\* u1 and u2 are registered and hold each other as contact; u1 has opened
\* the conversation, u2 has selected no contact.
SoloInit ==
  /\ profiles = [u \in {"u1", "u2"} |->
                   [uid |-> Md5Uid(Repeat(IF u = "u1" THEN "b" ELSE "a", 32)), name |-> NameOf(u)]]
  /\ rpc = [s \in RpcSessions |-> RpcIdle]
  /\ contacts = { [id |-> << "u1", 1 >>, user_id |-> "u1", contact_user_id |-> "u2"],
                  [id |-> << "u2", 1 >>, user_id |-> "u2", contact_user_id |-> "u1"] }
  /\ cl = [s \in ContactSessions |-> ClMounted]
  /\ messages = {}
  /\ msgIds = 0
  /\ clock = ClockStart
  /\ chat = [s \in ChatSessions |->
               ChatMounted(IF s = "s1" THEN Some(ContactOf("u1", "u2")) ELSE None)]

\* Sending without Reply and editing, over time.
SoloNext ==
  \/ \E s \in ChatSessions : FetchIdle(s) /\ FetchMessages(s, FALSE)
  \/ \E s \in ChatSessions, k \in 1..MaxFetches : FetchMessagesResolve(s, k, {})
  \/ \E s \in ChatSessions, newMessage \in NewMessages :
       HandleSendMessage(s, newMessage, NoId)
  \/ \E s \in ChatSessions, i \in 1..MaxMessages : SendMessageInsert(s, i)
  \/ \E s \in ChatSessions, messageId \in MsgIds, editContent \in EditContents :
       HandleEditMessage(s, messageId, editContent)
  \/ Tick

SoloSpec == SoloInit /\ [][SoloNext]_vars

ChatNext ==
  \/ \E s \in ChatSessions : FetchIdle(s) /\ FetchMessages(s, FALSE)
  \/ \E s \in ChatSessions, k \in 1..MaxFetches : FetchMessagesResolve(s, k, {})
  \/ \E s \in ChatSessions, newMessage \in NewMessages, replyTo \in MsgIds \cup {NoId} :
       HandleSendMessage(s, newMessage, replyTo)
  \/ \E s \in ChatSessions, i \in 1..MaxMessages : SendMessageInsert(s, i)
  \/ \E s \in ChatSessions, messageId \in MsgIds : HandleDeleteMessage(s, messageId)
  \/ Tick

ChatSpec == ChatInit /\ [][ChatNext]_vars

DirNext ==
  \/ \E u \in Users, d \in Md5Digests : CreateProfile(u, d)
  \/ \E s \in RpcSessions, p \in Users : RegenerateCall(s, p)
  \/ \E s \in RpcSessions, d \in Md5Digests : RegenerateAttempt(s, d)
  \/ \E s \in RpcSessions : RequestDone(s)
  \/ \E s \in RpcSessions, out \in Base36Outputs : HandleRegenerateUid(s, out)
  \/ \E s \in RpcSessions, t \in Users, d \in Md5Digests : ForeignUpdateUid(s, t, Md5Uid(d))

Init == DirInit

Next == DirNext

Spec == Init /\ [][Next]_vars

\* ---------------------------------------------------------------- claims

\* No two profile rows hold the same handle.
UniqueHandles ==
  \A u \in DOMAIN profiles, v \in DOMAIN profiles : u # v => profiles[u].uid # profiles[v].uid

\* A regenerate_profile_uid call that returns does not return a handle that a
\* row of another user holds.
ReturnNotForeign ==
  \A s \in RpcSessions :
    (rpc[s].pc = "loop" /\ rpc'[s].pc = "returned")
      => \A v \in DOMAIN profiles' : v # rpc'[s].p => profiles'[v].uid # rpc'[s].new_uid

\* C1: in every reachable state no two identities hold the same handle, and
\* regenerate never returns a handle that is assigned to a different identity.
C1_UniqueAndNeverForeign == []UniqueHandles /\ [][ReturnNotForeign]_vars

\* Within a call: the loop is only ever entered with fewer than max_attempts
\* collisions counted, a return comes after at most max_attempts UPDATEs, the
\* fatal error comes with exactly max_attempts collisions counted, and a call
\* in its loop can always make its next pass.
RegenerateBounded ==
  \A s \in RpcSessions :
    /\ rpc[s].attempt <= max_attempts
    /\ rpc[s].pc \in {"loop", "returned"} => rpc[s].attempt + 1 <= max_attempts
    /\ (rpc[s].pc = "raised" /\ rpc[s].err = "Failed to generate") => rpc[s].attempt = max_attempts
    /\ rpc[s].pc = "loop" => ENABLED (\E d \in Md5Digests : RegenerateAttempt(s, d))

\* Each pass of the loop either collides (the row of another user holds the
\* candidate; nothing is stored; one more collision is counted) or returns the
\* candidate, stored in the caller's row when the caller has one.
RegenerateStep ==
  \A s \in RpcSessions :
    (rpc[s].pc = "loop" /\ rpc'[s] # rpc[s]) =>
      \/ /\ rpc'[s].pc \in {"loop", "raised"}
         /\ rpc'[s].attempt = rpc[s].attempt + 1
         /\ (rpc'[s].pc = "raised") = (rpc'[s].attempt = max_attempts)
         /\ profiles' = profiles
         /\ \E d \in Md5Digests : UidConflict(profiles, rpc[s].p, Md5Uid(d))
      \/ /\ rpc'[s].pc = "returned"
         /\ rpc'[s].attempt = rpc[s].attempt
         /\ ~ (rpc[s].p \in DOMAIN profiles /\ AuthUid(s) = rpc[s].p
                 /\ UidConflict(profiles, rpc[s].p, rpc'[s].new_uid))
         /\ (rpc[s].p \in DOMAIN profiles /\ AuthUid(s) = rpc[s].p)
               => profiles'[rpc[s].p].uid = rpc'[s].new_uid

\* C2: regenerate always terminates: at most 10 persist attempts, the new
\* handle returned at the first attempt without a conflict, a fatal error once
\* 10 consecutive attempts have collided, never an 11th attempt.  Every pass
\* that does not end the call counts one more collision, the count is bounded
\* by max_attempts and the next pass is always enabled.
C2_RegenerateTerminates ==
  /\ []RegenerateBounded
  /\ [][RegenerateStep]_vars

\* A call has failed after 10 consecutive collisions.
C2_Witness ==
  \E s \in RpcSessions :
    rpc[s].pc = "raised" /\ rpc[s].err = "Failed to generate" /\ rpc[s].attempt = max_attempts

\* A request that names the row of a user other than the session's own
\* identity has been answered with the authorization error.
NonOwnerRefused ==
  \A s \in RpcSessions :
    (rpc[s].pc # "idle" /\ rpc[s].p # AuthUid(s))
      => (rpc[s].pc = "raised" /\ rpc[s].err = "Not authorized")

\* A step of a request that names the row of another user changes no handle.
NonOwnerChangesNothing ==
  \A s \in RpcSessions :
    (rpc'[s] # rpc[s] /\ ( (rpc[s].pc # "idle" /\ rpc[s].p # AuthUid(s))
                           \/ (rpc'[s].pc # "idle" /\ rpc'[s].p # AuthUid(s)) ))
      => profiles' = profiles

\* C3: a regenerate (or any handle update) requested for an identity by a
\* caller whose authenticated identity is not that identity, a caller with no
\* authenticated identity included, fails with an authorization error and
\* changes no identity's handle.
C3_NonOwnerFailsWithAuthError == []NonOwnerRefused /\ [][NonOwnerChangesNothing]_vars

\* The part of C3 that the storage layer does enforce: no handle changes.
NonOwnerNeverChangesHandle == [][NonOwnerChangesNothing]_vars

\* ------------------------------------------------------- claims on contacts

\* The users whose profile row holds the handle.
HoldersOf(uid) == { u \in DOMAIN profiles : profiles[u].uid = uid }

\* The store holds the edge (owner, peer).
HasEdge(owner, peer) ==
  \E e \in contacts : e.user_id = owner /\ e.contact_user_id = peer

\* What addContact(user, uid) is to answer: the reason of the first of the four
\* checks that fails, or "insert" when all four pass.
AddContactOutcome(user, uid) ==
  IF Len(uid) # UID_LENGTH THEN "UID must be exactly 8 characters."
  ELSE IF HoldersOf(uid) = {} THEN "No user exists with that UID."
  ELSE IF user \in HoldersOf(uid) THEN "You can't add yourself as a contact."
  ELSE IF \E p \in HoldersOf(uid) : HasEdge(user, p) THEN "Already added"
  ELSE "insert"

\* Session s ends its checks in this step: a refusal is shown, or the insert is sent.
ChecksEnd(s) ==
  /\ cl[s].pc \in {"idle", "lookup"}
  /\ cl'[s].pc \in {"done", "insert"}

\* C6: addContact attempts the edge insert only when all four checks pass
\* (length 8, the handle resolves, not the caller, the caller has no edge to
\* it); a failing check reports its own reason and no edge is created.
C6_InsertOnlyAfterFourChecks ==
  [][ \A s \in ContactSessions :
        ChecksEnd(s) =>
          /\ (cl'[s].pc = "insert") = (AddContactOutcome(AuthUid(s), cl'[s].uid) = "insert")
          /\ cl'[s].pc = "done" =>
               /\ cl'[s].toast = AddContactOutcome(AuthUid(s), cl'[s].uid)
               /\ contacts' = contacts ]_vars

\* The part of C6 that does not depend on the list the client holds: the
\* checks on length, existence and self come first and in this order, each
\* with its own reason, and a refusal creates no edge.
FirstThreeChecksShortCircuit ==
  [][ \A s \in ContactSessions :
        ChecksEnd(s) =>
          LET want == AddContactOutcome(AuthUid(s), cl'[s].uid)
              got == IF cl'[s].pc = "insert" THEN "insert" ELSE cl'[s].toast
          IN  /\ want \notin {"Already added", "insert"} => got = want
              /\ want \in {"Already added", "insert"} => got \in {"Already added", "insert"}
              /\ cl'[s].pc = "done" => contacts' = contacts ]_vars

\* C7: addContact(self, handleOf(self)) fails with the self-reference reason
\* and creates no edge, in every storage state.
C7_OwnHandleIsSelfReason ==
  [][ \A s \in ContactSessions :
        ( /\ ChecksEnd(s)
          /\ AuthUid(s) \in DOMAIN profiles
          /\ cl'[s].uid = profiles[AuthUid(s)].uid )
        => /\ cl'[s].pc = "done"
           /\ cl'[s].toast = "You can't add yourself as a contact."
           /\ contacts' = contacts ]_vars

\* C8: when the store already holds the edge (owner, peer), an addContact by
\* the owner with the peer's handle ends with the duplicate reason, whatever
\* list the client holds.
C8_DuplicateReason ==
  [][ \A s \in ContactSessions :
        ( /\ cl[s].pc \in {"idle", "lookup", "insert"}
          /\ cl'[s].pc = "done"
          /\ \E p \in HoldersOf(cl'[s].uid) : HasEdge(AuthUid(s), p) )
        => cl'[s].toast = "Already added" ]_vars

\* C9: in every reachable state of the contacts store there is at most one
\* edge per ordered (owner, peer) pair and no edge whose peer is its owner.
C9_EdgesUniqueAndNotSelf ==
  /\ \A e \in contacts, f \in contacts :
       (e.user_id = f.user_id /\ e.contact_user_id = f.contact_user_id) => e = f
  /\ \A e \in contacts : e.contact_user_id # e.user_id

\* Edges exist in both directions, one session was refused its own handle
\* and another had a second insert of an existing edge rejected.
C9_Witness ==
  /\ HasEdge("u1", "u2") /\ HasEdge("u2", "u1")
  /\ \E s \in ContactSessions :
       cl[s].pc = "done" /\ cl[s].toast = "You can't add yourself as a contact."
  /\ \E s \in ContactSessions : cl[s].pc = "done" /\ cl[s].toast = "Failed to add contact."

\* Arguments of lookup: the handles, NULL, the empty text, a text of 9
\* characters and a text of 8 characters that no row holds.
LookupInputs == Handles \cup { NULL_TEXT, << >>, Repeat("a", 9), Repeat("z", 8) }

\* The answer of lookup for every argument, against the rows as they are.
LookupAnswers ==
  \A x \in LookupInputs :
    LET r == lookup_profile_by_uid(profiles, x)
    IN  IF x = NULL_TEXT \/ Len(x) # 8
        THEN r.rows = << >> /\ ~ r.queried
        ELSE IF HoldersOf(x) # {}
             THEN /\ r.queried
                  /\ Len(r.rows) = 1
                  /\ r.rows[1].user_id \in HoldersOf(x)
                  /\ r.rows[1].name = profiles[r.rows[1].user_id].name
             ELSE r.rows = << >>

\* The step of a client that receives the lookup's answer changes no table.
LookupReadsOnly ==
  \A s \in ContactSessions :
    (cl[s].pc = "lookup" /\ cl'[s] # cl[s]) => (profiles' = profiles /\ contacts' = contacts)

\* C10: lookup never raises and never changes state; NULL or a length other
\* than 8 gives no row without the profiles being queried; an 8-character
\* argument gives exactly the row (identity, name) of the holder, or no row.
C10_Lookup == []LookupAnswers /\ [][LookupReadsOnly]_vars

\* A lookup has resolved a handle for a client while another row holds a
\* handle that no lookup resolves.
C10_Witness ==
  /\ \E s \in ContactSessions : cl[s].pc = "insert" /\ cl[s].found \in HoldersOf(cl[s].uid)
  /\ \E u \in DOMAIN profiles : Len(profiles[u].uid) # 8

\* ------------------------------------------------------- claims on messages

Abs(x) == IF x < 0 THEN 0 - x ELSE x

\* Session s sends an insert in this step.
IssuesInsert(s) == Len(chat'[s].inflight) > Len(chat[s].inflight)

\* An insert of session s is answered with the row stored in this step.
PersistsInsert(s) ==
  /\ msgIds' = msgIds + 1
  /\ Len(chat'[s].inflight) < Len(chat[s].inflight)

\* C4: of two send commands with content that a session issues less than
\* 500 ms apart exactly one is persisted: while an insert of the session
\* issued less than 500 ms ago is in flight, or one issued less than 500 ms
\* ago was persisted, a send command is dropped and sends no insert; and no
\* insert is persisted whose command came less than 500 ms from the
\* command of the session's insert persisted before it.
C4_OnePersistedWithinCooldown ==
  [][ \A s \in ChatSessions :
        /\ ( \/ \E i \in DOMAIN chat[s].inflight :
                  clock - chat[s].inflight[i].now < MESSAGE_COOLDOWN
             \/ clock - chat[s].lastMessageTime < MESSAGE_COOLDOWN )
           => ~ IssuesInsert(s)
        /\ (PersistsInsert(s) /\ chat[s].lastMessageTime # 0)
           => Abs(chat'[s].lastMessageTime - chat[s].lastMessageTime) >= MESSAGE_COOLDOWN ]_vars

\* What the throttle does keep: no insert is sent less than 500 ms after the
\* command of the session's last insert that was answered with success.
ThrottleAfterAnsweredInsert ==
  [][ \A s \in ChatSessions :
        IssuesInsert(s) => clock - chat[s].lastMessageTime >= MESSAGE_COOLDOWN ]_vars

\* Every stored reply_to_id is null or the id of a stored message.
ReplyReferencesResolve ==
  \A r \in messages : r.reply_to_id = NoId \/ \E m \in messages : m.id = r.reply_to_id

\* A delete removes the one row it names: every other row stays, the same in
\* all but reply_to_id, which is null where it named the deleted row.
DeleteKeepsReplies ==
  \A m \in messages :
    (~ \E r \in messages' : r.id = m.id) =>
      /\ Cardinality(messages') = Cardinality(messages) - 1
      /\ \A r \in messages \ {m} :
           \E q \in messages' :
             /\ q.id = r.id
             /\ q.content = r.content
             /\ q.sender_id = r.sender_id /\ q.receiver_id = r.receiver_id
             /\ q.created_at = r.created_at /\ q.is_edited = r.is_edited
             /\ q.reply_to_id = IF r.reply_to_id = m.id THEN NoId ELSE r.reply_to_id

\* A fetch selects every stored message of the conversation with its stored
\* content; its thread shows the selected messages, the ones whose
\* reply_to_id is null without reply preview, and shows no error.
FetchShowsVoidedReplies ==
  \A s \in ChatSessions :
    /\ (chat[s].due /\ ~ chat'[s].due) =>
         LET data == chat'[s].fetches[Len(chat'[s].fetches)].data
         IN  /\ { data[i].id : i \in DOMAIN data }
                  = { m.id : m \in { x \in messages : AuthUid(s) \in {x.sender_id, x.receiver_id} } }
             /\ \A i \in DOMAIN data : data[i] \in messages
             /\ chat'[s].toast = chat[s].toast
    /\ Len(chat'[s].fetches) < Len(chat[s].fetches) =>
         LET thread == chat'[s].messages
         IN  /\ \E k \in DOMAIN chat[s].fetches :
                  /\ DOMAIN thread = DOMAIN chat[s].fetches[k].data
                  /\ \A i \in DOMAIN thread :
                       /\ thread[i].id = chat[s].fetches[k].data[i].id
                       /\ thread[i].content = chat[s].fetches[k].data[i].content
                       /\ thread[i].reply_to_id = chat[s].fetches[k].data[i].reply_to_id
             /\ \A i \in DOMAIN thread : thread[i].reply_to_id = NoId => thread[i].reply_to = None
             /\ chat'[s].toast = chat[s].toast

\* C5: delete(m) of a message that others reply to removes only m, the
\* replies stay stored with their content and a null reply_to_id, the next
\* fetch shows them without reply preview and without error, and in every
\* reachable state each reply_to_id is null or names a stored message.
C5_DeleteVoidsReplyReferences ==
  /\ []ReplyReferencesResolve
  /\ [][DeleteKeepsReplies /\ FetchShowsVoidedReplies]_vars

\* A stored message has a null reply_to_id; one session still shows it with
\* the preview of the message it replied to, which is deleted, and the other
\* session has fetched since and shows it without preview.
C5_Witness ==
  \E r \in messages :
    /\ r.reply_to_id = NoId
    /\ \E s \in ChatSessions, t \in ChatSessions :
         /\ \E i \in DOMAIN chat[s].messages :
              /\ chat[s].messages[i].id = r.id
              /\ chat[s].messages[i].reply_to # None
              /\ ~ \E m \in messages : m.id = chat[s].messages[i].reply_to_id
         /\ ~ chat[t].due /\ chat[t].fetches = << >>
         /\ \E j \in DOMAIN chat[t].messages :
              /\ chat[t].messages[j].id = r.id
              /\ chat[t].messages[j].reply_to_id = NoId
              /\ chat[t].messages[j].reply_to = None

\* ------------------------------------------------------------------ edit

\* The stored row with this id, as a set of none or one.
RowOf(rows, messageId) == { m \in rows : m.id = messageId }

\* A step is an edit of a session on a message it sent, which is still stored.
EditsStored(s, messageId, editContent) ==
  /\ HandleEditMessage(s, messageId, editContent)
  /\ \E m \in RowOf(messages, messageId) : m.sender_id = AuthUid(s)

\* C11: an edit by the sender, which succeeds, sets the content to the new
\* content without the white space around it and the edited flag to true,
\* sets the last-modified time to the time of the edit, not earlier than it
\* was, and leaves id, sender, receiver, creation time and reply reference as
\* they were; no step changes the content of a row in another way, and no
\* step takes the edited flag from true to false.
C11_EditSetsContentAndFlag ==
  [][ /\ \A s \in ChatSessions, messageId \in MsgIds, editContent \in EditContents :
           EditsStored(s, messageId, editContent) =>
             \A m \in RowOf(messages, messageId) :
               \E q \in RowOf(messages', messageId) :
                 /\ q.content = Trim(editContent)
                 /\ q.is_edited
                 /\ q.updated_at = clock /\ q.updated_at >= m.updated_at
                 /\ q.sender_id = m.sender_id /\ q.receiver_id = m.receiver_id
                 /\ q.created_at = m.created_at /\ q.reply_to_id = m.reply_to_id
                 /\ messages' = (messages \ {m}) \cup {q}
                 /\ chat'[s].toast = chat[s].toast
      /\ \A m \in messages : \A q \in RowOf(messages', m.id) :
           /\ q.content # m.content => q.is_edited
           /\ m.is_edited => q.is_edited ]_vars

\* A stored reply was edited after the time it was created: it has the new
\* content and the edited flag, and still names the message it replies to.
C11_Witness ==
  \E m \in messages :
    /\ m.is_edited /\ m.content = << "y", "o" >>
    /\ m.updated_at > m.created_at
    /\ m.reply_to_id # NoId

\* The error that the delete request answers with: a DELETE whose policy
\* leaves no row through deletes no row, and that is no error.
DeleteMessageError(rows, caller, messageId) == ""

\* C12: an edit or a delete of a stored message by a caller who is not its
\* sender leaves the stored messages as they are and is answered with an
\* error.
C12_NonSenderIsRefused ==
  \A s \in ChatSessions, m \in messages :
    (AuthUid(s) # NULL /\ AuthUid(s) # m.sender_id) =>
      /\ \A editContent \in EditContents :
           Trim(editContent) # << >> =>
             LET res == UpdateMessage(messages, AuthUid(s), m.id, Trim(editContent), clock)
             IN  res.messages = messages /\ res.error # ""
      /\ DeleteMessage(messages, AuthUid(s), m.id, clock) = messages
      /\ DeleteMessageError(messages, AuthUid(s), m.id) # ""

\* What the policies do keep: the request of a caller who is not the sender
\* changes no stored message.
NonSenderChangesNothing ==
  \A s \in ChatSessions, m \in messages :
    (AuthUid(s) # NULL /\ AuthUid(s) # m.sender_id) =>
      /\ \A editContent \in EditContents :
           UpdateMessage(messages, AuthUid(s), m.id, Trim(editContent), clock).messages = messages
      /\ DeleteMessage(messages, AuthUid(s), m.id, clock) = messages

\* ----------------------------------------------------------------- thread

\* The stored messages between the user of a session and the peer it has open.
Conversation(s) ==
  { m \in messages :
      \/ m.sender_id = AuthUid(s) /\ m.receiver_id = chat[s].contact[1].contact_user_id
      \/ m.sender_id = chat[s].contact[1].contact_user_id /\ m.receiver_id = AuthUid(s) }

\* A step is the select of fetchMessages in a session.
Selects(s) == chat[s].due /\ ~ chat'[s].due

\* The rows that the select of this step has answered with.
Selected(s) == chat'[s].fetches[Len(chat'[s].fetches)].data

\* C13: the select of a thread answers with exactly the stored messages of
\* the pair, each once, in ascending creation time, and messages of equal
\* creation time in ascending id.
C13_ThreadInCreationThenIdOrder ==
  [][ \A s \in ChatSessions :
        Selects(s) =>
          /\ { Selected(s)[i] : i \in DOMAIN Selected(s) } = Conversation(s)
          /\ Len(Selected(s)) = Cardinality(Conversation(s))
          /\ \A i \in DOMAIN Selected(s), j \in DOMAIN Selected(s) :
               i < j =>
                 \/ Selected(s)[i].created_at < Selected(s)[j].created_at
                 \/ /\ Selected(s)[i].created_at = Selected(s)[j].created_at
                    /\ Selected(s)[i].id[2] < Selected(s)[j].id[2] ]_vars

\* What the query does keep: exactly the stored messages of the pair, each
\* once, and never a message before one that was created earlier.
ThreadInCreationOrder ==
  [][ \A s \in ChatSessions :
        Selects(s) =>
          /\ { Selected(s)[i] : i \in DOMAIN Selected(s) } = Conversation(s)
          /\ Len(Selected(s)) = Cardinality(Conversation(s))
          /\ \A i \in DOMAIN Selected(s), j \in DOMAIN Selected(s) :
               i < j => Selected(s)[i].created_at <= Selected(s)[j].created_at ]_vars

\* The conversation of EditInit with the calls of fetchMessages as the
\* component starts them: one per notification, also while earlier ones have
\* not set the thread yet.
RaceNext ==
  \/ \E s \in ChatSessions : FetchMessages(s, FALSE)
  \/ \E s \in ChatSessions, k \in 1..MaxFetches : FetchMessagesResolve(s, k, {})
  \/ \E s \in ChatSessions, messageId \in MsgIds : HandleDeleteMessage(s, messageId)
  \/ \E s \in ChatSessions, messageId \in MsgIds, editContent \in EditContents :
       HandleEditMessage(s, messageId, editContent)

RaceSpec == EditInit /\ [][RaceNext]_vars

\* What a thread shows of a message.
Shown(m) ==
  [id |-> m.id, content |-> m.content, is_edited |-> m.is_edited,
   reply_to_id |-> m.reply_to_id]

\* The thread of the session shows the stored messages of its conversation.
ThreadShowsStore(s) ==
  { Shown(chat[s].messages[i]) : i \in DOMAIN chat[s].messages }
    = { Shown(m) : m \in Conversation(s) }

\* Every notification to the session has been followed by its fetch, and
\* every fetch has set the thread: the thread stays as it is until the
\* stored messages change again.
Settled(s) == ~ chat[s].due /\ chat[s].fetches = << >>

\* C14: once the notifications of a send, edit or delete have been delivered
\* and the fetches they start have succeeded, every participant with the
\* conversation open shows the stored messages of the pair, and none that is
\* deleted.
C14_SettledThreadShowsStore ==
  \A s \in ChatSessions :
    (AuthUid(s) # NULL /\ chat[s].contact # None /\ Settled(s)) => ThreadShowsStore(s)

\* ---------------------------------------------------------- notifications

\* u1 has opened its conversation with u2; u2 has selected no contact, or
\* has opened its conversation with u3.
PeersInit ==
  /\ profiles = [u \in Users |->
                   [uid |-> Md5Uid(Repeat(CASE u = "u1" -> "b" [] u = "u2" -> "a" [] OTHER -> "c", 32)),
                    name |-> NameOf(u)]]
  /\ rpc = [s \in RpcSessions |-> RpcIdle]
  /\ contacts = { [id |-> << "u1", 1 >>, user_id |-> "u1", contact_user_id |-> "u2"],
                  [id |-> << "u2", 1 >>, user_id |-> "u2", contact_user_id |-> "u3"] }
  /\ cl = [s \in ContactSessions |-> ClMounted]
  /\ messages = {}
  /\ msgIds = 0
  /\ clock = ClockStart
  /\ \E selectedContact \in {None, Some(ContactOf("u2", "u3"))} :
       chat = [s \in ChatSessions |->
                 ChatMounted(IF s = "s1" THEN Some(ContactOf("u1", "u2")) ELSE selectedContact)]

PeersNext ==
  \/ \E s \in ChatSessions : FetchIdle(s) /\ FetchMessages(s, FALSE)
  \/ \E s \in ChatSessions, k \in 1..MaxFetches : FetchMessagesResolve(s, k, {})
  \/ \E s \in ChatSessions, newMessage \in NewMessages :
       HandleSendMessage(s, newMessage, NoId)
  \/ \E s \in ChatSessions, i \in 1..MaxMessages : SendMessageInsert(s, i)
  \/ \E s \in ChatSessions, messageId \in MsgIds : HandleDeleteMessage(s, messageId)
  \/ \E s \in ChatSessions, messageId \in MsgIds, editContent \in EditContents :
       HandleEditMessage(s, messageId, editContent)

PeersSpec == PeersInit /\ [][PeersNext]_vars

\* The session has a thread open: a signed-in user and a selected contact.
ThreadOpen(s) == AuthUid(s) # NULL /\ chat[s].contact # None

\* C15: every change of the stored messages, of whatever conversation, makes
\* a fetch due in each session that has a thread open, and the select of a
\* fetch answers with all stored messages of the open conversation; a
\* session with no thread open starts no fetch and its state never changes.
C15_NotificationRefetchesOpenThread ==
  [][ \A s \in ChatSessions :
        /\ (messages' # messages /\ ThreadOpen(s)) => chat'[s].due
        /\ Selects(s) =>
             /\ ThreadOpen(s)
             /\ { Selected(s)[i] : i \in DOMAIN Selected(s) } = Conversation(s)
        /\ ~ ThreadOpen(s) =>
             /\ chat'[s] = chat[s]
             /\ ~ chat[s].due /\ chat[s].fetches = << >> /\ chat[s].messages = << >> ]_vars

\* u1's thread shows all of its conversation with u2, which is not empty, and
\* a fetch is due in it again after a message from u2 to u3 was stored.
C15_Witness ==
  /\ ThreadOpen("s1") /\ chat["s1"].due
  /\ chat["s1"].messages # << >> /\ ThreadShowsStore("s1")
  /\ \E m \in messages : m.sender_id = "u2" /\ m.receiver_id = "u3"

\* ---------------------------------------------------------------- content

\* The string is not empty and has no white space at either end.
Trimmed(str) == str # << >> /\ Head(str) # " " /\ str[Len(str)] # " "

\* str is typed with nothing but white space: empty after the trim.
Blank(typed) == \A i \in DOMAIN typed : typed[i] = " "

\* str is what typed has between its leading and its trailing white space.
TrimOf(str, typed) ==
  /\ Trimmed(str)
  /\ \E i \in DOMAIN typed, j \in DOMAIN typed :
       /\ SubSeq(typed, i, j) = str
       /\ \A k \in DOMAIN typed : (k < i \/ k > j) => typed[k] = " "

\* C16: a send or an edit whose content is empty after the trim is no step:
\* it sends no request and leaves the stored messages and the thread as they
\* are; the content of an insert request and of an edit is what was typed
\* without the white space around it, and so is every stored content.
C16_BlankIsDroppedAndContentTrimmed ==
  /\ [](\A m \in messages : Trimmed(m.content))
  /\ [](\A s \in ChatSessions : \A i \in DOMAIN chat[s].inflight :
          Trimmed(chat[s].inflight[i].content))
  /\ [][ \A s \in ChatSessions :
           /\ \A newMessage \in NewMessages, replyTo \in MsgIds \cup {NoId} :
                HandleSendMessage(s, newMessage, replyTo) =>
                  /\ ~ Blank(newMessage)
                  /\ IssuesInsert(s) =>
                       TrimOf(chat'[s].inflight[Len(chat'[s].inflight)].content, newMessage)
           /\ \A messageId \in MsgIds, editContent \in EditContents :
                HandleEditMessage(s, messageId, editContent) =>
                  /\ ~ Blank(editContent)
                  /\ \A q \in RowOf(messages', messageId) :
                       q \notin messages => TrimOf(q.content, editContent) ]_vars

\* A message typed as ' hi ' is stored as 'hi', and another, edited with
\* ' yo ' typed, as 'yo'.
C16_Witness ==
  /\ \E m \in messages : m.content = << "h", "i" >> /\ ~ m.is_edited
  /\ \E m \in messages : m.content = << "y", "o" >> /\ m.is_edited

\* A content of one character more than the database accepts.
OverLong == [i \in 1..(MAX_CONTENT_LENGTH + 1) |-> "x"]

\* What a user types or pastes into the message field and into the field of
\* the message being edited: a short content, or one that is too long.
LongContents == { << "h", "i" >>, OverLong }

\* The conversation of SoloInit with over-long content among the inputs.
LongNext ==
  \/ \E s \in ChatSessions : FetchIdle(s) /\ FetchMessages(s, FALSE)
  \/ \E s \in ChatSessions, k \in 1..MaxFetches : FetchMessagesResolve(s, k, {})
  \/ \E s \in ChatSessions, newMessage \in LongContents :
       HandleSendMessage(s, newMessage, NoId)
  \/ \E s \in ChatSessions, i \in 1..MaxMessages : SendMessageInsert(s, i)
  \/ \E s \in ChatSessions, messageId \in MsgIds, editContent \in LongContents :
       HandleEditMessage(s, messageId, editContent)
  \/ Tick

LongSpec == SoloInit /\ [][LongNext]_vars

\* C17: a send or an edit with content of more than 10,000 characters makes
\* no request to the database: no insert request carries such a content, and
\* no step is an edit command with such a content.
C17_OverLengthMakesNoRequest ==
  /\ [](\A s \in ChatSessions : \A i \in DOMAIN chat[s].inflight :
          Len(chat[s].inflight[i].content) <= MAX_CONTENT_LENGTH)
  /\ [][ \A s \in ChatSessions, messageId \in MsgIds, editContent \in LongContents :
           HandleEditMessage(s, messageId, editContent) =>
             Len(Trim(editContent)) <= MAX_CONTENT_LENGTH ]_vars

\* What the database does keep: no stored content is longer than 10,000
\* characters.
StoredWithinMaxLength ==
  \A m \in messages : Len(m.content) <= MAX_CONTENT_LENGTH

\* ---------------------------------------------------------- reply preview

\* A step is the setMessages of a fetchMessages call of the session.
SetsThread(s) == Len(chat'[s].fetches) < Len(chat[s].fetches)

\* The stored message that a reply reference resolves to for the session, as
\* a set of none or one.
Referenced(s, id) == { m \in RowOf(messages, id) : RlsMessageSelect(AuthUid(s), m) }

\* The label of the sender of a referenced message for the viewer.
SenderLabel(s, m) ==
  IF m.sender_id = AuthUid(s) THEN << "Y", "o", "u" >> ELSE profiles[m.sender_id].name

\* C18: when a fetch sets the thread, the preview of each message whose reply
\* reference resolves has the content of the referenced message and, as
\* sender label, "You" when the viewer sent the referenced message and the
\* display name of its sender otherwise; a message whose reference is null or
\* does not resolve has no preview; and the fetch shows no error.
C18_ReplyPreviewLabel ==
  [][ \A s \in ChatSessions :
        SetsThread(s) =>
          /\ chat'[s].toast = chat[s].toast
          /\ \A i \in DOMAIN chat'[s].messages :
               LET msg == chat'[s].messages[i]
               IN  /\ Referenced(s, msg.reply_to_id) = {} => msg.reply_to = None
                   /\ \A m \in Referenced(s, msg.reply_to_id) :
                        msg.reply_to = Some([content |-> m.content,
                                             sender_name |-> SenderLabel(s, m)]) ]_vars

\* What fetchMessages does keep: the content of the preview, its absence for
\* a reference that is null or does not resolve, and no error.
ReplyPreviewContent ==
  [][ \A s \in ChatSessions :
        SetsThread(s) =>
          /\ chat'[s].toast = chat[s].toast
          /\ \A i \in DOMAIN chat'[s].messages :
               LET msg == chat'[s].messages[i]
               IN  /\ Referenced(s, msg.reply_to_id) = {} => msg.reply_to = None
                   /\ \A m \in Referenced(s, msg.reply_to_id) :
                        /\ msg.reply_to # None
                        /\ msg.reply_to[1].content = m.content
                        /\ m.sender_id # AuthUid(s) =>
                             msg.reply_to[1].sender_name = profiles[m.sender_id].name ]_vars

\* -------------------------------------------------------- remove and list

\* The edges that removeContact(contactId) by the caller may delete.
Removable(caller, contactId) ==
  { e \in contacts : e.id = contactId /\ e.user_id = caller }

\* C19: removeContact deletes no edge but the named one, and that one only
\* when it belongs to the caller, so the edge from the peer back to the
\* caller stays; for an edge that is not stored, or is not the caller's, the
\* store stays as it is; and the command ends with 'Contact removed', not
\* with an error.
C19_RemoveDeletesOnlyOwnEdge ==
  /\ [](\A s \in ContactSessions, u \in Users, k \in 1..MaxContactIds :
          LET after == DeleteContact(contacts, AuthUid(s), << u, k >>)
          IN  /\ after \subseteq contacts
              /\ contacts \ after \subseteq Removable(AuthUid(s), << u, k >>)
              /\ Removable(AuthUid(s), << u, k >>) = {} => after = contacts)
  /\ [][ \A s \in ContactSessions :
           (cl[s].pc = "remove" /\ cl'[s].pc = "done") =>
             /\ contacts' \subseteq contacts
             /\ contacts \ contacts' \subseteq Removable(AuthUid(s), cl[s].rm)
             /\ cl'[s].toast = "Contact removed" ]_vars

\* u1 and u2 held each other as contact; u1 has removed u2 and the edge from
\* u2 to u1 is still stored.
C19_Witness ==
  /\ cl["s1"].pc = "done" /\ cl["s1"].toast = "Contact removed"
  /\ ~ HasEdge("u1", "u2") /\ HasEdge("u2", "u1")

\* The edges that the user of the session holds.
OwnEdges(s) == { e \in contacts : e.user_id = AuthUid(s) }

\* The entry of the list for an edge: the profile of the peer, or the
\* placeholder when the peer has no profile row.
EntryOf(e) ==
  [id |-> e.id, contact_user_id |-> e.contact_user_id,
   profile |-> IF e.contact_user_id \in DOMAIN profiles
               THEN [name |-> profiles[e.contact_user_id].name,
                     uid |-> profiles[e.contact_user_id].uid]
               ELSE [name |-> << "Unknown" >>, uid |-> Repeat("?", 8)]]

\* A step is a fetchContacts of the session.
ListsContacts(s) == cl[s].fetch /\ ~ cl'[s].fetch

\* C20: fetchContacts sets the list to one entry per edge that the user
\* holds, with the profile of the peer or the placeholder, also when the
\* query for the profiles fails: no entry is dropped and the list is not
\* emptied.
C20_ListHasEntryPerEdge ==
  [][ \A s \in ContactSessions :
        ListsContacts(s) =>
          /\ cl'[s].contacts = { EntryOf(e) : e \in OwnEdges(s) }
          /\ Cardinality(cl'[s].contacts) = Cardinality(OwnEdges(s)) ]_vars

\* What fetchContacts does keep: one entry per edge whenever the query for
\* the profiles is answered without error.
ListHasEntryPerEdgeUnlessError ==
  [][ \A s \in ContactSessions :
        FetchContacts(s, FALSE) =>
          /\ cl'[s].contacts = { EntryOf(e) : e \in OwnEdges(s) }
          /\ Cardinality(cl'[s].contacts) = Cardinality(OwnEdges(s)) ]_vars

\* --------------------------------------------------- claims on the handle

\* C21: in every reachable state the handle of every profile row is exactly
\* 8 characters long, whichever path created or regenerated it.
C21_HandlesAreEightLong ==
  \A u \in DOMAIN profiles : Len(profiles[u].uid) = UID_LENGTH

\* What the server routine and the column default do keep: a handle that
\* regenerate_profile_uid returns is 8 characters long.
ReturnedHandleIsEightLong ==
  \A s \in RpcSessions : rpc[s].pc = "returned" => Len(rpc[s].new_uid) = UID_LENGTH

\* C22: a regenerate from the Settings screen never ends in a failure shown
\* to the user after a single collision of its candidate: the command, which
\* makes one UPDATE, ends without error and with a handle that no other row
\* holds.
C22_SettingsRetriesOnCollision ==
  \A s \in RpcSessions :
    rpc[s].pc = "settings" =>
      /\ rpc[s].err = ""
      /\ profiles[rpc[s].p].uid = rpc[s].new_uid
      /\ ~ UidConflict(profiles, rpc[s].p, rpc[s].new_uid)

\* What the unique index does keep for the Settings screen: a command that
\* ends without error has stored its candidate, which no other row holds, and
\* one that ends with an error has changed no row.
SettingsStoresOrFails ==
  [][ \A s \in RpcSessions :
        (rpc[s].pc = "idle" /\ rpc'[s].pc = "settings") =>
          IF rpc'[s].err = ""
          THEN /\ profiles'[rpc'[s].p].uid = rpc'[s].new_uid
               /\ ~ UidConflict(profiles', rpc'[s].p, rpc'[s].new_uid)
          ELSE profiles' = profiles ]_vars

\* ------------------------------------------------------ change of the peer

\* handleSelectContact: setSelectedContact(contact) with an entry of the
\* contact list; ChatArea, which stays mounted, gets the new contact, keeps
\* its state, and its effect on [user, contact] calls fetchMessages.
SelectContact(s, e) ==
  /\ AuthUid(s) # NULL
  /\ e \in contacts /\ e.user_id = AuthUid(s)
  /\ chat[s].contact # None => chat[s].contact[1].contact_user_id # e.contact_user_id
  /\ chat' = [chat EXCEPT ![s] =
       [chat[s] EXCEPT !.contact = Some([id |-> e.id, contact_user_id |-> e.contact_user_id,
                                         profile |-> ContactProfile(DOMAIN profiles,
                                                                    e.contact_user_id)]),
                       !.due = TRUE]]
  /\ UNCHANGED << messages, msgIds, clock, notChatVars >>

\* u1 holds u2 and u3 as contacts and has the conversation with u2 open, which
\* holds a message and a later reply; u2 has its conversation with u1 open.
SwitchInit ==
  /\ profiles = [u \in Users |->
                   [uid |-> Md5Uid(Repeat(CASE u = "u1" -> "b" [] u = "u2" -> "a" [] OTHER -> "c", 32)),
                    name |-> NameOf(u)]]
  /\ rpc = [s \in RpcSessions |-> RpcIdle]
  /\ contacts = { [id |-> << "u1", 1 >>, user_id |-> "u1", contact_user_id |-> "u2"],
                  [id |-> << "u1", 2 >>, user_id |-> "u1", contact_user_id |-> "u3"],
                  [id |-> << "u2", 1 >>, user_id |-> "u2", contact_user_id |-> "u1"] }
  /\ cl = [s \in ContactSessions |-> ClMounted]
  /\ messages = StoredMessages
  /\ msgIds = 2
  /\ clock = ClockStart
  /\ chat = [s \in ChatSessions |->
               ChatMounted(Some([id |-> << AuthUid(s), 1 >>,
                                 contact_user_id |-> IF s = "s1" THEN "u2" ELSE "u1",
                                 profile |-> [name |-> NameOf(IF s = "s1" THEN "u2" ELSE "u1"),
                                              uid |-> Md5Uid(Repeat(IF s = "s1" THEN "a" ELSE "b", 32))]]))]

\* The conversation with the contact changed, with calls of fetchMessages
\* that overlap and with requests that are answered with an error.
SwitchNext ==
  \/ \E s \in ChatSessions, e \in contacts : SelectContact(s, e)
  \/ \E s \in ChatSessions, error \in BOOLEAN : FetchMessages(s, error)
  \/ \E s \in ChatSessions, k \in 1..MaxFetches, failed \in SUBSET MsgIds :
       FetchMessagesResolve(s, k, failed)
  \/ \E s \in ChatSessions, messageId \in MsgIds : HandleDeleteMessage(s, messageId)
  \/ \E s \in ChatSessions, messageId \in MsgIds, editContent \in EditContents :
       HandleEditMessage(s, messageId, editContent)

SwitchSpec == SwitchInit /\ [][SwitchNext]_vars

\* C23: the result of a fetch that was issued while another peer was open is
\* not applied: whenever a fetch sets the thread, the thread holds only
\* messages between the viewer and the peer that is open.
C23_StaleFetchIsDiscarded ==
  [][ \A s \in ChatSessions :
        SetsThread(s) =>
          \A i \in DOMAIN chat'[s].messages :
            LET msg == chat'[s].messages[i]
                peer == chat'[s].contact[1].contact_user_id
            IN  \/ msg.sender_id = AuthUid(s) /\ msg.receiver_id = peer
                \/ msg.sender_id = peer /\ msg.receiver_id = AuthUid(s) ]_vars

\* What fetchMessages does keep: the thread that a call sets holds only
\* messages between the viewer and the peer that was open when the call began.
ThreadIsOfPeerOfCall ==
  [][ \A s \in ChatSessions :
        SetsThread(s) =>
          \E k \in DOMAIN chat[s].fetches :
            \A i \in DOMAIN chat'[s].messages :
              LET msg == chat'[s].messages[i]
                  peer == chat[s].fetches[k].contact.contact_user_id
              IN  \/ msg.sender_id = AuthUid(s) /\ msg.receiver_id = peer
                  \/ msg.sender_id = peer /\ msg.receiver_id = AuthUid(s) ]_vars

\* --------------------------------------------------- order of the fetches

\* C24: the calls of fetchMessages of a component do not overlap: at most one
\* call is between its select and its setMessages, and the call that sets the
\* thread is never one that began after a call that has yet to set it, so no
\* result of an earlier call replaces that of a later one.
C24_FetchesDoNotOverlap ==
  /\ [](\A s \in ChatSessions : Len(chat[s].fetches) <= 1)
  /\ [][ \A s \in ChatSessions :
           SetsThread(s) => chat'[s].fetches = Tail(chat[s].fetches) ]_vars

\* ------------------------------------------------------- failing requests

\* The conversation of EditInit, one call of fetchMessages at a time, with
\* selects and reply lookups that are answered with an error.
FailNext ==
  \/ \E s \in ChatSessions, error \in BOOLEAN : FetchIdle(s) /\ FetchMessages(s, error)
  \/ \E s \in ChatSessions, k \in 1..MaxFetches, failed \in SUBSET MsgIds :
       FetchMessagesResolve(s, k, failed)
  \/ \E s \in ChatSessions, messageId \in MsgIds : HandleDeleteMessage(s, messageId)
  \/ \E s \in ChatSessions, messageId \in MsgIds, editContent \in EditContents :
       HandleEditMessage(s, messageId, editContent)

FailSpec == EditInit /\ [][FailNext]_vars

\* A step is a fetchMessages of the session whose select is answered with an
\* error.
SelectFails(s) == Selects(s) /\ chat'[s].fetches = chat[s].fetches

\* The thread is the rows of one answer, all of them and in its order, each
\* with a preview or without.
WholeAnswer(thread, data) ==
  /\ DOMAIN thread = DOMAIN data
  /\ \A i \in DOMAIN thread :
       /\ Shown(thread[i]) = Shown(data[i])
       /\ thread[i].reply_to # None => thread[i].reply_to_id # NoId

\* C25: a fetch whose select fails leaves the thread exactly as it was; a
\* select that is answered does not touch the thread before the reply
\* lookups are done; the thread changes only by being replaced as a whole
\* with the rows of one answer, after its lookups have been answered or have
\* failed, a failed lookup giving a message without preview; so no thread
\* mixes the rows of two fetches or holds a lookup that is pending.
C25_ThreadReplacedAsAWhole ==
  [][ \A s \in ChatSessions :
        /\ SelectFails(s) => chat'[s].messages = chat[s].messages
        /\ (Selects(s) /\ ~ SelectFails(s)) => chat'[s].messages = chat[s].messages
        /\ chat'[s].messages # chat[s].messages =>
             \E k \in DOMAIN chat[s].fetches :
               /\ chat'[s].fetches = Without(chat[s].fetches, k)
               /\ WholeAnswer(chat'[s].messages, chat[s].fetches[k].data) ]_vars

\* u1's thread still shows the two messages after the store has changed and
\* the fetch that followed has failed; u2's thread shows the reply without
\* preview after its lookup failed, with the replied-to message stored.
C25_Witness ==
  /\ Settled("s1") /\ Len(chat["s1"].messages) = 2 /\ ~ ThreadShowsStore("s1")
  /\ \E i \in DOMAIN chat["s2"].messages :
       /\ chat["s2"].messages[i].reply_to = None
       /\ Referenced("s2", chat["s2"].messages[i].reply_to_id) # {}

\* ------------------------------------------------------------ failed sends

\* u1 has u2's conversation open and one message to u2 is stored.
DraftInit ==
  /\ profiles = [u \in {"u1", "u2"} |->
                   [uid |-> Md5Uid(Repeat(IF u = "u1" THEN "b" ELSE "a", 32)), name |-> NameOf(u)]]
  /\ rpc = [s \in RpcSessions |-> RpcIdle]
  /\ contacts = { [id |-> << "u1", 1 >>, user_id |-> "u1", contact_user_id |-> "u2"],
                  [id |-> << "u2", 1 >>, user_id |-> "u2", contact_user_id |-> "u1"] }
  /\ cl = [s \in ContactSessions |-> ClMounted]
  /\ messages = { m \in StoredMessages : m.id = MsgId(1) }
  /\ msgIds = 1
  /\ clock = ClockStart
  /\ chat = [s \in ChatSessions |->
               ChatMounted(IF s = "s1" THEN Some(ContactOf("u1", "u2")) ELSE None)]

\* Fetching, sending with and without Reply, and deleting, at one time of
\* the clock: a Reply to a message that is deleted in the store and still in
\* the thread is refused by the foreign key of reply_to_id.
DraftNext ==
  \/ \E s \in ChatSessions : FetchIdle(s) /\ FetchMessages(s, FALSE)
  \/ \E s \in ChatSessions, k \in 1..MaxFetches : FetchMessagesResolve(s, k, {})
  \/ \E s \in ChatSessions, newMessage \in NewMessages, replyTo \in MsgIds \cup {NoId} :
       HandleSendMessage(s, newMessage, replyTo)
  \/ \E s \in ChatSessions, i \in 1..MaxMessages : SendMessageInsert(s, i)
  \/ \E s \in ChatSessions, messageId \in MsgIds : HandleDeleteMessage(s, messageId)

DraftSpec == DraftInit /\ [][DraftNext]_vars

\* A step is the answer to an insert of the session, and the answer is an
\* error.
SendFails(s) ==
  /\ Len(chat'[s].inflight) < Len(chat[s].inflight)
  /\ msgIds' = msgIds

\* A step is a handleSendMessage of the session that returns at the rate
\* limit: the input holds a text and no insert is requested.
SendDropped(s) ==
  /\ chat'[s] # chat[s]
  /\ chat'[s].inflight = chat[s].inflight
  /\ chat'[s].newMessage # << >>
  /\ << chat'[s].newMessage, chat'[s].replyTo >> # << chat[s].newMessage, chat[s].replyTo >>

\* C26: a send that is answered with an error shows 'Failed to send
\* message.', stores nothing, and leaves the text of the input, the selected
\* reply target and lastMessageTime as they were; lastMessageTime changes
\* only when an insert is accepted, to the time that send was issued; and a
\* send is dropped only within MESSAGE_COOLDOWN of lastMessageTime, so the
\* send repeated right after a failed one is requested.
C26_FailedSendKeepsDraftAndClock ==
  [][ \A s \in ChatSessions :
        /\ SendFails(s) =>
              /\ messages' = messages
              /\ chat'[s].toast = "Failed to send message."
              /\ chat'[s].newMessage = chat[s].newMessage
              /\ chat'[s].replyTo = chat[s].replyTo
              /\ chat'[s].lastMessageTime = chat[s].lastMessageTime
        /\ chat'[s].lastMessageTime # chat[s].lastMessageTime =>
              /\ msgIds' = msgIds + 1
              /\ \E i \in DOMAIN chat[s].inflight :
                    /\ chat'[s].lastMessageTime = chat[s].inflight[i].now
                    /\ chat'[s].inflight = Without(chat[s].inflight, i)
              /\ \E m \in messages' \ messages : m.sender_id = AuthUid(s)
        /\ SendDropped(s) => clock - chat[s].lastMessageTime < MESSAGE_COOLDOWN ]_vars

\* u1's Reply to the deleted message has failed: the error is shown, nothing
\* is stored, the input still holds the text and the reply target,
\* lastMessageTime is still 0, and the same send, repeated at the same time
\* of the clock, is on its way.
C26_Witness ==
  /\ chat["s1"].toast = "Failed to send message."
  /\ messages = {} /\ msgIds = 1
  /\ chat["s1"].newMessage = << " ", "h", "i", " " >>
  /\ chat["s1"].replyTo = MsgId(1)
  /\ chat["s1"].lastMessageTime = 0
  /\ Len(chat["s1"].inflight) = 1
  /\ chat["s1"].inflight[1].reply_to_id = MsgId(1)
  /\ chat["s1"].inflight[1].now = clock

\* ------------------------------------------------- effect of a regenerate

\* A step is a regenerate of the session that ends without error:
\* regenerate_profile_uid returns, or the UPDATE of the Settings screen is
\* answered without error.
RegenerateSucceeds(s) ==
  \/ rpc[s].pc = "loop" /\ rpc'[s].pc = "returned"
  \/ rpc[s].pc = "idle" /\ rpc'[s].pc = "settings" /\ rpc'[s].err = ""

\* C27: a regenerate that ends without error changes the handle of the
\* caller's own profile row and nothing else that is stored: afterwards the
\* lookup of the previous handle gives no row, the lookup of the new handle
\* gives the caller with its name, every other row, every name, every
\* contact and every message is as before.
C27_RegenerateChangesOnlyOwnHandle ==
  [][ \A s \in RpcSessions :
        RegenerateSucceeds(s) =>
          LET u == rpc'[s].p
              new_uid == rpc'[s].new_uid
          IN  /\ u = AuthUid(s)
              /\ u \in DOMAIN profiles
              /\ lookup_profile_by_uid(profiles', profiles[u].uid).rows = << >>
              /\ lookup_profile_by_uid(profiles', new_uid).rows
                   = << [user_id |-> u, name |-> profiles[u].name] >>
              /\ DOMAIN profiles' = DOMAIN profiles
              /\ \A v \in DOMAIN profiles :
                   /\ profiles'[v].name = profiles[v].name
                   /\ v # u => profiles'[v] = profiles[v]
              /\ UNCHANGED notDirVars ]_vars

\* What a regenerate that ends without error does keep: every other row,
\* every name, every contact and every message is as before, and when the
\* caller is signed in and has a row and the new handle is 8 characters long and not the
\* previous one, the previous handle gives no row and the new one gives the
\* caller.
RegenerateKeepsTheRest ==
  [][ \A s \in RpcSessions :
        RegenerateSucceeds(s) =>
          LET u == rpc'[s].p
              new_uid == rpc'[s].new_uid
          IN  /\ DOMAIN profiles' = DOMAIN profiles
              /\ \A v \in DOMAIN profiles :
                   /\ profiles'[v].name = profiles[v].name
                   /\ v # u => profiles'[v] = profiles[v]
              /\ UNCHANGED notDirVars
              /\ (u = AuthUid(s) /\ u \in DOMAIN profiles /\ Len(new_uid) = UID_LENGTH
                     /\ new_uid # profiles[u].uid) =>
                   /\ lookup_profile_by_uid(profiles', profiles[u].uid).rows = << >>
                   /\ lookup_profile_by_uid(profiles', new_uid).rows
                        = << [user_id |-> u, name |-> profiles[u].name] >> ]_vars

====
